---- MODULE Spec2Model ----
(***************************************************************************)
(* Model of the "Vast Unknown" scorekeeping backend (backend/server.py).   *)
(*                                                                         *)
(* State: the game_sessions collection of the document store, the uuid4    *)
(* generator, the UTC clock, the position of an in-flight get_stats call   *)
(* (the handler awaits the store twice) and the last response sent.        *)
(*                                                                         *)
(* Numbers: a float is represented by the integer number of quarters it    *)
(* equals (25.5 is 102); quarters are exact binary fractions, so sums of   *)
(* them are exact in double arithmetic. An int is a plain integer.         *)
(* Averages returned by get_stats are integers counting tenths.            *)
(*                                                                         *)
(* uuid4 is a generator that never repeats a value: the n-th value it      *)
(* issues is n. The store is assumed reachable (no StoreUnavailableError   *)
(* is modelled).                                                           *)
(***************************************************************************)
EXTENDS Integers, Sequences, FiniteSets

VARIABLES game_sessions, uuids_issued, now, stats_call, returned, response

vars == <<game_sessions, uuids_issued, now, stats_call, returned, response>>

\* ------------------------------------------------------------------ bounds

\* Most documents the collection holds in the model.
MaxSessions == 3

\* The instants the UTC clock shows in the model.
Instants == {0, 1}

\* Most documents the collection holds in SpecMany, where the collection
\* outgrows the default limit of the leaderboard.
MaxManySessions == 11

\* get_leaderboard(limit: int = 10)
DefaultLimit == 10

\* ------------------------------------------------------------------ helpers

Abs(n) == IF n < 0 THEN 0 - n ELSE n

Min(a, b) == IF a <= b THEN a ELSE b

\* A truncation that keeps everything.
TakeAll(s, n) == s

\* The first n elements of s, or all of s when it has fewer.
Take(s, n) == SubSeq(s, 1, Min(n, Len(s)))

SetMax(S) == CHOOSE m \in S : \A x \in S : x <= m

RECURSIVE SumOf(_, _)
SumOf(s, field) == IF s = <<>> THEN 0 ELSE s[1][field] + SumOf(Tail(s), field)

\* ------------------------------------------------------------------ JSON values

\* A JSON value of a request body: an integer literal, a float literal, a
\* string spelling a number, any other string, or an absent key. q is the
\* number in quarters (unused for "str" and "missing").
IntV(n) == [kind |-> "int", q |-> 4 * n]
FloatV(q) == [kind |-> "float", q |-> q]
NumStrV(q) == [kind |-> "numstr", q |-> q]
StrV == [kind |-> "str", q |-> 0]
Missing == [kind |-> "missing", q |-> 0]
\* The string form of the n-th uuid, as a caller may send it.
UuidStrV(n) == [kind |-> "uuidstr", q |-> n]

Fields == {"score", "survival_time", "complexity_peak"}

\* ------------------------------------------------------------------ pydantic

\* An int field that lets every value that is present through.
IntErrorUnchecked(v) ==
    CASE v.kind = "missing" -> "missing"
      [] OTHER -> "none"

\* pydantic's lax int: an int, a float without fractional part, or a string
\* of digits; anything else is an error.
IntError(v) ==
    CASE v.kind = "int" -> "none"
      [] v.kind = "float" -> IF v.q % 4 = 0 THEN "none" ELSE "int_from_float"
      [] v.kind = "numstr" -> IF v.q % 4 = 0 THEN "none" ELSE "int_parsing"
      [] v.kind = "missing" -> "missing"
      [] OTHER -> "int_parsing"

\* pydantic's lax float: an int, a float or a string spelling a number.
FloatError(v) ==
    CASE v.kind \in {"int", "float", "numstr"} -> "none"
      [] v.kind = "missing" -> "missing"
      [] OTHER -> "float_parsing"

ToInt(v) == v.q \div 4

\* A float field coerced through int: the fractional part is lost.
ToFloatTruncated(v) == 4 * (v.q \div 4)

ToFloat(v) == v.q

FieldError(payload, f) ==
    IF f = "score" THEN IntError(payload[f]) ELSE FloatError(payload[f])

\* The structured description of a ValidationError: each failing field with
\* the kind of failure. Empty when the payload validates.
ValidationErrors(payload) ==
    {<<f, FieldError(payload, f)>> : f \in {g \in Fields : FieldError(payload, g) # "none"}}

\* A request model that keeps a session_id the payload carries (extra keys
\* allowed instead of ignored).
GameSessionCreateAllowExtra(payload) ==
    IF payload.session_id.kind = "uuidstr"
    THEN [score |-> ToInt(payload.score),
          survival_time |-> ToFloat(payload.survival_time),
          complexity_peak |-> ToFloat(payload.complexity_peak),
          session_id |-> payload.session_id.q]
    ELSE [score |-> ToInt(payload.score),
          survival_time |-> ToFloat(payload.survival_time),
          complexity_peak |-> ToFloat(payload.complexity_peak)]

\* GameSessionCreate(...).model_dump(): the three declared fields, coerced;
\* any other key of the payload is dropped (extra keys are ignored).
GameSessionCreate(payload) ==
    [score |-> ToInt(payload.score),
     survival_time |-> ToFloat(payload.survival_time),
     complexity_peak |-> ToFloat(payload.complexity_peak)]

\* GameSession(**session_dict): session_id and timestamp come from their
\* default factories unless the dict supplies them.
GameSession(session_dict, uuid, utcnow) ==
    [session_id |-> IF "session_id" \in DOMAIN session_dict
                    THEN session_dict.session_id ELSE uuid,
     score |-> session_dict.score,
     survival_time |-> session_dict.survival_time,
     complexity_peak |-> session_dict.complexity_peak,
     timestamp |-> utcnow]

\* datetime.isoformat() and datetime.fromisoformat(): a datetime is an
\* integer instant, its ISO-8601 string a tagged value.
IsoFormat(t) == [iso |-> t]

FromIsoFormat(s) == s.iso

IsStr(x) == DOMAIN x = {"iso"}

\* doc = session_obj.model_dump(); doc['timestamp'] = ...isoformat()
ToDoc(session_obj) == [session_obj EXCEPT !.timestamp = IsoFormat(session_obj.timestamp)]

\* ------------------------------------------------------------------ store

\* A write that replaces the documents of the same score, if any.
InsertOneUpsertByScore(coll, doc) ==
    IF \E i \in DOMAIN coll : coll[i].score = doc.score
    THEN [i \in DOMAIN coll |-> IF coll[i].score = doc.score THEN doc ELSE coll[i]]
    ELSE Append(coll, doc)

\* insert_one: the document is appended to the collection.
InsertOne(coll, doc) == Append(coll, doc)

CountDocuments(coll) == Len(coll)

\* find({}).sort("score", -1): every order of the collection in which the
\* scores do not increase; the order among equal scores is not defined.
\* OrdersBy(coll, left, sign) is the set of orders of the documents at the
\* positions in left by sign * score, highest first.
RECURSIVE OrdersBy(_, _, _)
OrdersBy(coll, left, sign) ==
    IF left = {} THEN {<<>>}
    ELSE UNION {{<<coll[i]>> \o rest : rest \in OrdersBy(coll, left \ {i}, sign)} :
                  i \in {k \in left : \A j \in left :
                                        sign * coll[k].score >= sign * coll[j].score}}

\* sort("score", 1)
SortAscending(coll) == OrdersBy(coll, DOMAIN coll, 0 - 1)

SortByScoreDesc(coll) == OrdersBy(coll, DOMAIN coll, 1)

\* cursor.limit(n): 0 is no limit, a negative n is treated as its magnitude.
CursorLimit(docs, n) == IF n = 0 THEN docs ELSE Take(docs, Abs(n))

\* to_list(length) raises ValueError for a negative length.
ToListRaises(length) == length < 0

\* to_list(length) returns at most length documents of the cursor.
ToList(docs, length) == Take(docs, length)

\* A pipeline that yields no group.
AggregateNoGroup(coll) == <<>>

\* The $group stage: no group for an empty collection, else one group with
\* the two averages (as exact fractions) and the maximum score.
Aggregate(coll) ==
    IF coll = <<>> THEN <<>>
    ELSE <<[avg_score |-> [num |-> SumOf(coll, "score"), den |-> Len(coll)],
            avg_survival_time |-> [num |-> SumOf(coll, "survival_time"), den |-> 4 * Len(coll)],
            max_score |-> SetMax({coll[i].score : i \in 1..Len(coll)})]>>

\* The average cut to one decimal instead of rounded.
Round1Truncating(avg) == {(10 * avg.num) \div avg.den}

\* round(x, 1) of the double nearest to num/den, in tenths. Python rounds
\* the double's exact value half to even; when num/den lies exactly between
\* two tenths and is a binary fraction the double is exact and the even
\* tenth is returned; when it is not a binary fraction the double lies on
\* one side of the midpoint and either neighbour may be returned.
Round1(avg) ==
    LET f == (10 * avg.num) \div avg.den
        r == 10 * avg.num - f * avg.den
    IN IF 2 * r < avg.den THEN {f}
       ELSE IF 2 * r > avg.den THEN {f + 1}
       ELSE IF (2 * f + 1) % 5 = 0 THEN {IF f % 2 = 0 THEN f ELSE f + 1}
       ELSE {f, f + 1}

\* ------------------------------------------------------------------ inputs

\* Request bodies: three that validate (plain values; values that need
\* coercion; a float score and a caller-supplied session_id) and four that
\* do not (the spec's {"score": "not-a-number"}; a missing field; a score
\* with a fractional part; a string spelling a fraction as the score).
Payloads ==
    { [score |-> IntV(10), survival_time |-> FloatV(102), complexity_peak |-> FloatV(350),
       session_id |-> Missing],
      [score |-> NumStrV(80), survival_time |-> IntV(1), complexity_peak |-> NumStrV(2),
       session_id |-> Missing],
      [score |-> FloatV(120), survival_time |-> FloatV(1), complexity_peak |-> IntV(3),
       session_id |-> UuidStrV(1)],
      [score |-> StrV, survival_time |-> Missing, complexity_peak |-> Missing,
       session_id |-> Missing],
      [score |-> IntV(10), survival_time |-> FloatV(102), complexity_peak |-> Missing,
       session_id |-> UuidStrV(1)],
      [score |-> FloatV(5), survival_time |-> FloatV(102), complexity_peak |-> FloatV(350),
       session_id |-> Missing],
      [score |-> NumStrV(102), survival_time |-> StrV, complexity_peak |-> FloatV(350),
       session_id |-> Missing] }

\* The limit query parameter: absent, not an integer, or an integer.
LimitParams ==
    {[kind |-> "absent", n |-> 0], [kind |-> "str", n |-> 0]}
        \cup {[kind |-> "int", n |-> k] : k \in (0 - 1)..MaxSessions}

\* ------------------------------------------------------------------ state

NoBody == <<>>

Resp(op, status, request, body, trace) ==
    [op |-> op, status |-> status, request |-> request, body |-> body, trace |-> trace]

Idle == [pc |-> "idle", total_games |-> 0, entered_at |-> 0]

Init ==
    /\ game_sessions = <<>>
    /\ uuids_issued = 0
    /\ now = 0
    /\ stats_call = Idle
    /\ returned = <<>>
    /\ response = Resp("none", 0, NoBody, NoBody, NoBody)

\* ------------------------------------------------------------------ handlers

\* GET /
root ==
    /\ response' = Resp("root", 200, NoBody, [message |-> "Vast Unknown API"], NoBody)
    /\ UNCHANGED <<game_sessions, uuids_issued, now, stats_call, returned>>

\* POST /game/session. The body is validated against GameSessionCreate
\* before the handler runs; the handler touches the store once.
create_game_session(payload) ==
    LET errors == ValidationErrors(payload)
        uuid == uuids_issued + 1
        session_obj == GameSession(GameSessionCreate(payload), uuid, now)
    IN /\ IF errors # {}
          THEN /\ response' = Resp("ingest", 422, payload, errors, NoBody)
               /\ UNCHANGED <<game_sessions, uuids_issued, returned>>
          ELSE /\ uuids_issued' = uuid
               /\ game_sessions' = InsertOne(game_sessions, ToDoc(session_obj))
               /\ returned' = Append(returned, [payload |-> payload, record |-> session_obj])
               /\ response' = Resp("ingest", 200, payload, session_obj, NoBody)
       /\ UNCHANGED <<now, stats_call>>

\* LeaderboardEntry(**session): the declared fields, the timestamp dropped.
LeaderboardEntry(session) ==
    [session_id |-> session.session_id,
     score |-> session.score,
     survival_time |-> session.survival_time,
     complexity_peak |-> session.complexity_peak,
     rank |-> session.rank]

\* The loop of get_leaderboard: parse the timestamp, set the rank.
Annotate(sessions) ==
    [idx \in 1..Len(sessions) |->
        [session_id |-> sessions[idx].session_id,
         score |-> sessions[idx].score,
         survival_time |-> sessions[idx].survival_time,
         complexity_peak |-> sessions[idx].complexity_peak,
         timestamp |-> IF IsStr(sessions[idx].timestamp)
                       THEN FromIsoFormat(sessions[idx].timestamp)
                       ELSE sessions[idx].timestamp,
         rank |-> idx]]

\* GET /game/leaderboard?limit=N
get_leaderboard(param) ==
    LET limit == IF param.kind = "absent" THEN DefaultLimit ELSE param.n
    IN /\ IF param.kind = "str"
          THEN response' = Resp("leaderboard", 422, param, {<<"limit", "int_parsing">>}, NoBody)
          ELSE IF ToListRaises(limit)
          THEN response' = Resp("leaderboard", 500, param, NoBody, NoBody)
          ELSE \E found \in {ToList(CursorLimit(sorted, limit), limit) :
                                 sorted \in SortByScoreDesc(game_sessions)} :
                  LET sessions == Annotate(found)
                  IN response' = Resp("leaderboard", 200, param,
                                      [i \in 1..Len(sessions) |-> LeaderboardEntry(sessions[i])],
                                      [limit |-> limit])
       /\ UNCHANGED <<game_sessions, uuids_issued, now, stats_call, returned>>

ZeroStats(total_games) ==
    [total_games |-> total_games, avg_score |-> 0, avg_survival_time |-> 0, highest_score |-> 0]

\* GET /game/stats, up to the first await: count_documents, and the early
\* return when the count is 0.
get_stats_count ==
    LET total_games == CountDocuments(game_sessions)
    IN /\ stats_call.pc = "idle"
       /\ IF total_games = 0
          THEN /\ response' = Resp("stats", 200, NoBody, ZeroStats(0),
                                   [entered_at |-> Len(game_sessions), branch |-> "empty"])
               /\ UNCHANGED stats_call
          ELSE /\ stats_call' = [pc |-> "counted", total_games |-> total_games,
                                 entered_at |-> Len(game_sessions)]
               /\ UNCHANGED response
       /\ UNCHANGED <<game_sessions, uuids_issued, now, returned>>

\* GET /game/stats, from the second await: the aggregate and the response.
get_stats_aggregate ==
    LET result == Aggregate(game_sessions)
        trace(branch) == [entered_at |-> stats_call.entered_at, branch |-> branch]
    IN /\ stats_call.pc = "counted"
       /\ IF result # <<>>
          THEN \E avg_score \in Round1(result[1].avg_score),
                  avg_survival_time \in Round1(result[1].avg_survival_time) :
                  response' = Resp("stats", 200, NoBody,
                                   [total_games |-> stats_call.total_games,
                                    avg_score |-> avg_score,
                                    avg_survival_time |-> avg_survival_time,
                                    highest_score |-> result[1].max_score],
                                   trace("aggregate"))
          ELSE response' = Resp("stats", 200, NoBody, ZeroStats(stats_call.total_games),
                                trace("fallback"))
       /\ stats_call' = Idle
       /\ UNCHANGED <<game_sessions, uuids_issued, now, returned>>

\* The UTC clock advances.
Tick ==
    /\ now + 1 \in Instants
    /\ now' = now + 1
    /\ UNCHANGED <<game_sessions, uuids_issued, stats_call, returned, response>>

Next ==
    \/ root
    \/ \E payload \in Payloads :
          /\ ValidationErrors(payload) = {} => Len(game_sessions) < MaxSessions
          /\ create_game_session(payload)
    \/ \E param \in LimitParams : get_leaderboard(param)
    \/ get_stats_count
    \/ get_stats_aggregate
    \/ Tick

Spec == Init /\ [][Next]_vars

\* A second run of the service: the k-th session stored has score k, and
\* the leaderboard is asked with no limit or a limit up to one more than the
\* collection can hold.
ManyPayload(k) ==
    [score |-> IntV(k), survival_time |-> FloatV(102), complexity_peak |-> FloatV(350),
     session_id |-> Missing]

ManyLimitParams ==
    {[kind |-> "absent", n |-> 0]}
        \cup {[kind |-> "int", n |-> k] : k \in 0..(MaxManySessions + 1)}

NextMany ==
    \/ /\ Len(game_sessions) < MaxManySessions
       /\ create_game_session(ManyPayload(Len(game_sessions) + 1))
    \/ \E param \in ManyLimitParams : get_leaderboard(param)

SpecMany == Init /\ [][NextMany]_vars

\* ------------------------------------------------------------------ claims

IsIngest(r) == r.op = "ingest"
IsLeaderboard(r) == r.op = "leaderboard"
IsStats(r) == r.op = "stats"

\* A payload that lacks a required field or holds a value that is not of
\* the declared type and cannot be converted to it.
Unconvertible(p) ==
    \/ \E f \in Fields : p[f].kind \in {"missing", "str"}
    \/ p.score.kind \in {"float", "numstr"} /\ p.score.q % 4 # 0

\* C1: an Ingest whose payload lacks a required field or holds an
\* unconvertible value answers 422 with the failing fields named, and the
\* step that answers it leaves the collection as it was.
C1_InvalidPayloadRejected ==
    [][(IsIngest(response') /\ Unconvertible(response'.request))
          => /\ response'.status = 422
             /\ response'.body # {}
             /\ game_sessions' = game_sessions]_vars

C1_Witness ==
    /\ IsIngest(response)
    /\ response.status = 422
    /\ response.request.score.kind = "str"
    /\ Len(game_sessions) > 0

\* C2: the collection holds as many documents as Ingest calls succeeded;
\* a step either leaves the collection alone or is a successful Ingest that
\* appends exactly one document after the unchanged earlier ones.
C2_IngestAppendsOne ==
    /\ Len(game_sessions) = Len(returned)
    /\ [][/\ Len(game_sessions') = Len(returned')
          /\ \/ game_sessions' = game_sessions /\ returned' = returned
             \/ /\ IsIngest(response') /\ response'.status = 200
                /\ Len(returned') = Len(returned) + 1
                /\ Len(game_sessions') = Len(game_sessions) + 1
                /\ SubSeq(game_sessions', 1, Len(game_sessions)) = game_sessions]_vars

C2_Witness ==
    /\ IsIngest(response)
    /\ response.status = 200
    /\ Len(game_sessions) = MaxSessions
    /\ \E i, j \in DOMAIN game_sessions : i < j /\ game_sessions[i].score = game_sessions[j].score

\* C3: the session_id values of the stored sessions are pairwise distinct,
\* and the id of a stored session is the generated one, whatever the
\* payload carried.
C3_SessionIdsDistinct ==
    /\ \A i, j \in DOMAIN game_sessions :
          i # j => game_sessions[i].session_id # game_sessions[j].session_id
    /\ \A k \in DOMAIN returned : returned[k].record.session_id = game_sessions[k].session_id

C3_Witness ==
    /\ IsIngest(response)
    /\ response.status = 200
    /\ response.request.session_id.kind = "uuidstr"
    /\ \E i \in DOMAIN game_sessions :
          /\ game_sessions[i].session_id = response.request.session_id.q
          /\ game_sessions[i].session_id # response.body.session_id

\* C4: the record Ingest returned carries the payload's three numbers, and
\* a Leaderboard page whose limit is at least the number of stored sessions
\* holds, for every record Ingest returned, an entry with the same
\* session_id, score, survival_time and complexity_peak.
C4_RoundTrip ==
    /\ \A k \in DOMAIN returned :
          /\ 4 * returned[k].record.score = returned[k].payload.score.q
          /\ returned[k].record.survival_time = returned[k].payload.survival_time.q
          /\ returned[k].record.complexity_peak = returned[k].payload.complexity_peak.q
    /\ (IsLeaderboard(response) /\ response.status = 200
            /\ response.trace.limit >= Len(game_sessions))
          => \A k \in DOMAIN returned : \E i \in DOMAIN response.body :
                /\ response.body[i].session_id = returned[k].record.session_id
                /\ response.body[i].score = returned[k].record.score
                /\ response.body[i].survival_time = returned[k].record.survival_time
                /\ response.body[i].complexity_peak = returned[k].record.complexity_peak

C4_Witness ==
    /\ IsLeaderboard(response)
    /\ response.status = 200
    /\ response.request.kind = "int"
    /\ response.request.n = Len(game_sessions)
    /\ Len(returned) >= 2
    /\ \E k \in DOMAIN returned : returned[k].payload.survival_time.kind = "int"
    /\ \E k \in DOMAIN returned : returned[k].payload.score.kind = "float"

PositiveLimit(param) == param.kind = "absent" \/ (param.kind = "int" /\ param.n > 0)

\* C5: a Leaderboard call with a positive (or absent) limit returns a page
\* whose scores do not increase and whose i-th entry has rank i; with no
\* stored session the page is the empty sequence.
C5_LeaderboardOrdered ==
    (IsLeaderboard(response) /\ PositiveLimit(response.request))
       => /\ response.status = 200
          /\ \A i, j \in DOMAIN response.body :
                i < j => response.body[i].score >= response.body[j].score
          /\ \A i \in DOMAIN response.body : response.body[i].rank = i
          /\ game_sessions = <<>> => response.body = <<>>

C5_Witness ==
    /\ IsLeaderboard(response)
    /\ response.status = 200
    /\ Len(response.body) = 2
    /\ Len(game_sessions) = 3
    /\ game_sessions[1].score < game_sessions[2].score
    /\ game_sessions[2].score < game_sessions[3].score
    /\ response.body[1].session_id = game_sessions[3].session_id
    /\ response.body[1].rank = 1

\* C6: a Leaderboard page has exactly min(limit, number of stored sessions)
\* entries, never more than the limit, where the limit is 10 when the
\* request gives none.
C6_LeaderboardLimit ==
    (IsLeaderboard(response) /\ response.status = 200)
       => LET limit == IF response.request.kind = "absent" THEN 10 ELSE response.request.n
          IN /\ Len(response.body) <= limit
             /\ Len(response.body) = Min(limit, Len(game_sessions))

C6_Witness ==
    /\ IsLeaderboard(response)
    /\ response.status = 200
    /\ response.request.kind = "absent"
    /\ Len(game_sessions) = 11
    /\ Len(response.body) = 10

\* C7: a Leaderboard call whose limit is not an integer, or is an integer
\* that is not positive, is answered 422.
C7_MalformedLimitRejected ==
    (IsLeaderboard(response) /\ ~PositiveLimit(response.request)) => response.status = 422

\* C8: Stats entered on an empty collection answers the four zeros, and
\* the answer comes from a zero branch (the early return or the fallback)
\* only when the collection was empty: with total_games > 0 the values are
\* the aggregate's.
C8_StatsEmpty ==
    IsStats(response)
       => /\ response.status = 200
          /\ response.trace.entered_at = 0
                => response.body = [total_games |-> 0, avg_score |-> 0,
                                    avg_survival_time |-> 0, highest_score |-> 0]
          /\ (response.trace.branch # "aggregate") <=> (response.trace.entered_at = 0)
          /\ response.body.total_games > 0 => response.trace.branch = "aggregate"

C8_Witness ==
    /\ IsStats(response)
    /\ response.trace.branch = "empty"
    /\ response.body.total_games = 0
    /\ game_sessions = <<>>

\* body describes the collection coll: its size, its highest score, and
\* averages within half a tenth of the exact means.
Describes(body, coll) ==
    LET n == Len(coll)
    IN /\ body.total_games = n
       /\ n = 0 => body.avg_score = 0 /\ body.avg_survival_time = 0 /\ body.highest_score = 0
       /\ n > 0 =>
            /\ \E i \in 1..n : coll[i].score = body.highest_score
            /\ \A i \in 1..n : coll[i].score <= body.highest_score
            /\ 2 * Abs(body.avg_score * n - 10 * SumOf(coll, "score")) <= n
            /\ 2 * Abs(body.avg_survival_time * 4 * n - 10 * SumOf(coll, "survival_time"))
                  <= 4 * n

\* C9: when no session was stored during a Stats call on a non-empty
\* collection, total_games is the number of stored sessions, highest_score
\* their highest score, and the averages the means rounded to one decimal.
C9_StatsCorrect ==
    (IsStats(response) /\ response.trace.entered_at = Len(game_sessions)
        /\ game_sessions # <<>>)
       => Describes(response.body, game_sessions)

\* Scores 10, 20, 30: total_games 3, highest_score 30, avg_score 20.0.
C9_Witness ==
    /\ IsStats(response)
    /\ response.trace.entered_at = Len(game_sessions)
    /\ {game_sessions[i].score : i \in DOMAIN game_sessions} = {10, 20, 30}
    /\ response.body.total_games = 3
    /\ response.body.highest_score = 30
    /\ response.body.avg_score = 200

\* C10: the four values of a Stats response describe one state the
\* collection had between the call's entry and its response.
C10_StatsSnapshot ==
    IsStats(response)
       => \E k \in response.trace.entered_at..Len(game_sessions) :
             Describes(response.body, SubSeq(game_sessions, 1, k))

====
